---- MODULE Spec2Model ----
(***************************************************************************)
(* A model of the Aeon-Keys synthesizer engine (src/src/lib.rs): the       *)
(* Synthesizer struct, its voices and envelopes, the LFOs, the filter, the *)
(* delay, the reverb, the wavetables and the preset export / import.       *)
(*                                                                         *)
(* Numbers.  An f32 value x is held as the integer nearest x * U           *)
(* (U = 10000): seconds, Hz, gains, levels and samples alike.  NaN is a    *)
(* value of its own and follows Rust's rules: max and min drop it, clamp   *)
(* and arithmetic keep it, every comparison with it is false, a cast to    *)
(* an integer gives 0.  The sample rate is held in tenths of a Hz          *)
(* (SR_UNIT = 10) so that rates below 1 Hz exist.  An LFO phase is held    *)
(* as a fraction of a turn (phase / 2 pi) in units of 1/U.  sin, tan, exp  *)
(* and 2^x are fixed-point approximations (within a few parts in 1000).    *)
(* A Vec<f32> buffer is held as its length and the map of its nonzero      *)
(* entries.                                                                *)
(***************************************************************************)
EXTENDS Integers, Sequences, FiniteSets, TLC

U == 10000
SR_UNIT == 10
NaN == -2000000000

WAVETABLE_SIZE == 2048
MAX_VOICES == 64

\* ---------------------------------------------------------------- f32
IsNaN(x) == x = NaN
Abs(x) == IF x < 0 THEN -x ELSE x
Sign(x) == IF x < 0 THEN -1 ELSE 1
\* a * b / c for a, b >= 0 and c > 0, without the intermediate product a * b;
\* exact up to c = 100000, to 1 part in 100000 of the remainder beyond
MulDivNat(a, b, c) == LET s == c \div 100000 + 1
                      IN  (a \div c) * b + (((a % c) \div s) * b) \div (c \div s)
\* a * b / U for a, b >= 0, both operands split at U
MulUNat(a, b) == (a \div U) * (b \div U) * U + (a \div U) * (b % U)
                 + (a % U) * (b \div U) + ((a % U) * (b % U)) \div U
\* a * b / c rounded toward zero, c > 0
MulDiv(a, b, c) == Sign(a) * Sign(b) * MulDivNat(Abs(a), Abs(b), c)
\* truncating division and remainder (Rust's / on integers, % on floats)
Quot(a, b) == Sign(a) * Sign(b) * (Abs(a) \div Abs(b))
Rem(a, b) == Sign(a) * (Abs(a) % Abs(b))

FAdd(a, b) == IF IsNaN(a) \/ IsNaN(b) THEN NaN ELSE a + b
FSub(a, b) == IF IsNaN(a) \/ IsNaN(b) THEN NaN ELSE a - b
FNeg(a) == IF IsNaN(a) THEN NaN ELSE -a
FAbs(a) == IF IsNaN(a) THEN NaN ELSE Abs(a)
FMul(a, b) == IF IsNaN(a) \/ IsNaN(b) THEN NaN ELSE Sign(a) * Sign(b) * MulUNat(Abs(a), Abs(b))
\* a / b; x / 0 is an infinity in f32 and is not modelled (no divisor here is 0)
FDiv(a, b) == IF IsNaN(a) \/ IsNaN(b) THEN NaN ELSE Sign(b) * MulDiv(a, U, Abs(b))
\* f32::max, f32::min: the other operand when one is NaN
FMax(a, b) == IF IsNaN(a) THEN b ELSE IF IsNaN(b) THEN a ELSE IF a >= b THEN a ELSE b
FMin(a, b) == IF IsNaN(a) THEN b ELSE IF IsNaN(b) THEN a ELSE IF a <= b THEN a ELSE b
\* f32::clamp: NaN stays NaN
FClamp(x, lo, hi) == IF IsNaN(x) THEN NaN ELSE IF x < lo THEN lo ELSE IF x > hi THEN hi ELSE x
FLe(a, b) == ~IsNaN(a) /\ ~IsNaN(b) /\ a <= b
FLt(a, b) == ~IsNaN(a) /\ ~IsNaN(b) /\ a < b
FGe(a, b) == ~IsNaN(a) /\ ~IsNaN(b) /\ a >= b
FGt(a, b) == ~IsNaN(a) /\ ~IsNaN(b) /\ a > b
\* x.floor() for a finite x
Floor(x) == (x \div U) * U
\* `x as usize`: NaN and negatives saturate to 0, the fraction is dropped
AsUsize(x) == IF IsNaN(x) \/ x < 0 THEN 0 ELSE x \div U
\* `x as i32`
AsI32(x) == IF IsNaN(x) THEN 0 ELSE Quot(x, U)
\* x.round(): half away from zero
Round(x) == IF IsNaN(x) THEN NaN ELSE Sign(x) * ((Abs(x) + U \div 2) \div U) * U
PowInt2(n) == 2 ^ n

\* sin(2 pi t) for t in turns (units of 1/U): Bhaskara's rational form on
\* each half turn
SinHalf(h) == LET a == (h * (U \div 2 - h)) \div 625
              IN  (4 * a * U) \div (50000 - a)
SinTurn(t) == IF IsNaN(t) THEN NaN
              ELSE LET p == t % U
                   IN  IF p <= U \div 2 THEN SinHalf(p) ELSE -SinHalf(p - U \div 2)
\* exp(-x) for x >= 0: halve the argument down to 1/8, Pade (2 - y) / (2 + y)
\* there, square back up; below 1/U from x = 10 on
RECURSIVE ExpNeg(_)
ExpNeg(x) == IF x >= 10 * U THEN 0
             ELSE IF x <= U \div 8 THEN ((2 * U - x) * U) \div (2 * U + x)
             ELSE LET h == ExpNeg(x \div 2) IN (h * h) \div U
\* 2^x: the integer part by doubling or halving, the fraction f by
\* 1 + 0.6565 f + 0.3435 f^2
Pow2(x) == LET n == x \div U
               f == x % U
               m == U + (6565 * f) \div U + (3435 * ((f * f) \div U)) \div U
           IN  IF n >= 0 THEN m * PowInt2(n) ELSE m \div PowInt2(-n)
\* tan(pi r) at r = c / 100, c = 0 .. 49 (entry c + 1), in units of 1/U
TanTable == << 0, 314, 629, 945, 1263, 1584, 1908, 2235, 2568, 2905,
               3249, 3600, 3959, 4327, 4706, 5095, 5498, 5914, 6346, 6796,
               7265, 7757, 8273, 8816, 9391, 10000, 10649, 11343, 12088, 12892,
               13764, 14715, 15757, 16909, 18190, 19626, 21251, 23109, 25257, 27776,
               30777, 34420, 38947, 44737, 52422, 63138, 79158, 105789, 158945, 318205,
               318205 >>
\* tan(pi r) for r in units of 1/1000, r <= 490: linear between table entries
TanPiTable(r) == LET c == r \div 10
                     lo == TanTable[c + 1]
                     hi == TanTable[c + 2]
                 IN  lo + ((hi - lo) * (r % 10)) \div 10
\* tan(pi r) for any r >= 0 in units of 1/1000: period 1, odd about 1/2, held
\* at its value at 0.49 within 0.01 of the pole
TanPi(r) == LET rr == r % 1000
            IN  IF rr <= 490 THEN TanPiTable(rr)
                ELSE IF rr < 500 THEN TanPiTable(490)
                ELSE IF rr <= 510 THEN -TanPiTable(490)
                ELSE -TanPiTable(1000 - rr)

\* ---------------------------------------------------------------- buffers
\* vec![0.0; n]
BufNew(n) == [len |-> n, data |-> {}]
BufGet(b, i) == IF \E e \in b.data : e[1] = i
                THEN (CHOOSE e \in b.data : e[1] = i)[2]
                ELSE 0
BufSet(b, i, v) == [b EXCEPT !.data = {e \in b.data : e[1] # i}
                                      \cup (IF v = 0 THEN {} ELSE {<<i, v>>})]
\* Vec::resize(n, 0.0)
BufResize(b, n) == [len |-> n, data |-> {e \in b.data : e[1] < n}]
\* an index a Vec accepts
InBounds(b, i) == 0 <= i /\ i < b.len

\* (secs * sr) as usize, secs given in 1/1000 s and sr in 1/SR_UNIT Hz
SrTimes(sr, millis) == (sr * millis) \div (1000 * SR_UNIT)

\* ---------------------------------------------------------------- Waveform
Waveforms == <<"Sine", "Saw", "Square", "Triangle", "Noise", "Wavetable">>
WaveformFromF32(v) == LET i == AsI32(Round(v))
                      IN  IF 0 <= i /\ i <= 5 THEN Waveforms[i + 1] ELSE "Sine"
WaveformToIndex(w) == (CHOOSE i \in 1..6 : Waveforms[i] = w) - 1

OscSettingsDefault == [waveform |-> "Saw", detune_cents |-> 0, gain |-> 8000]
ADSRParamsDefault == [attack |-> 100, decay |-> 2000, sustain |-> 8000, release |-> 3000]
LFODefault == [rate |-> 25000, amount |-> 0, phase |-> 0, waveform |-> 0]
ModMatrixDefault == [lfo0_to_cutoff |-> 3000, lfo1_to_cutoff |-> 0, env_to_cutoff |-> 0,
                     lfo0_to_amp |-> 0, lfo1_to_amp |-> 0,
                     lfo0_to_wtpos |-> 0, lfo1_to_wtpos |-> 0]

\* the default table: one sine cycle
DefaultTable == [i \in 1..WAVETABLE_SIZE |->
                    SinTurn(((i - 1) * U) \div WAVETABLE_SIZE)]

\* ---------------------------------------------------------------- filter
FilterUpdateCoeffs(f) ==
    LET r == f.base_cutoff \div f.sample_rate    \* cutoff / sr in 1/1000
        wc == IF IsNaN(f.base_cutoff) THEN NaN ELSE TanPi(r)
        res == FClamp(f.resonance, 0, 12000)
        q == FAdd(5000, FMax(FMul(15000, FSub(U, res)), 500))
    IN  [f EXCEPT !.g = wc, !.k = FDiv(U, q)]
FilterNew(c, q, sr) ==
    FilterUpdateCoeffs([base_cutoff |-> c, resonance |-> q, sample_rate |-> sr,
                        g |-> 0, k |-> 0, ic1eq |-> 0, ic2eq |-> 0])
\* sample_rate * 0.49
CutoffTop(sr) == sr * ((49 * U) \div (100 * SR_UNIT))
FilterSetCutoff(f, c) ==
    FilterUpdateCoeffs([f EXCEPT !.base_cutoff = FMin(FMax(c, 20 * U), CutoffTop(f.sample_rate))])
\* one sample through the 2-pole lowpass; <<filter, output>>
FilterProcess(f, x) ==
    LET v0 == x
        v1 == FDiv(FAdd(f.ic1eq, FMul(f.g, FSub(v0, f.ic2eq))),
                   FAdd(U, FMul(f.g, FAdd(f.g, f.k))))
        v2 == FAdd(f.ic2eq, FMul(f.g, v1))
    IN  << [f EXCEPT !.ic1eq = FSub(FMul(2 * U, v1), f.ic1eq),
                     !.ic2eq = FSub(FMul(2 * U, v2), f.ic2eq)], v2 >>

\* ---------------------------------------------------------------- envelope
\* PerVoiceADSR::new as it would be if it took the stock parameters, not d
PerVoiceADSRNewStock(d) ==
    [attack |-> ADSRParamsDefault.attack, decay |-> ADSRParamsDefault.decay,
     sustain |-> ADSRParamsDefault.sustain, release |-> ADSRParamsDefault.release,
     state |-> "Attack", level |-> 0]
PerVoiceADSRNew(d) == [attack |-> d.attack, decay |-> d.decay, sustain |-> d.sustain,
                       release |-> d.release, state |-> "Attack", level |-> 0]
ADSRNoteOff(e) == [e EXCEPT !.state = "Release"]
\* dt / t.max(1e-6) with dt = 1 / sr.  1e-6 is below one unit of 1/U; the floor
\* acts only on t <= 0 or NaN, which it lifts to the smallest unit held
EnvStep(sr, t) == MulDivNat(SR_UNIT * U, U, sr * FMax(t, 1))
\* PerVoiceADSR::tick: the envelope after one sample (its level is the result)
ADSRTick(e, sr) ==
    CASE e.state = "Idle" -> e
      [] e.state = "Attack" ->
            LET l == FAdd(e.level, EnvStep(sr, e.attack))
            IN  IF FGe(l, U) THEN [e EXCEPT !.level = U, !.state = "Decay"]
                ELSE [e EXCEPT !.level = l]
      [] e.state = "Decay" ->
            LET l == FSub(e.level, FMul(EnvStep(sr, e.decay), FSub(U, e.sustain)))
            IN  IF FLe(l, e.sustain) THEN [e EXCEPT !.level = e.sustain, !.state = "Sustain"]
                ELSE [e EXCEPT !.level = l]
      [] e.state = "Sustain" -> e
      [] e.state = "Release" ->
            LET l == FSub(e.level, EnvStep(sr, e.release))
            IN  IF FLe(l, 0) THEN [e EXCEPT !.level = 0, !.state = "Idle"]
                ELSE [e EXCEPT !.level = l]

\* ---------------------------------------------------------------- LFO
\* phase = (phase + dt * rate * 2 pi) % (2 pi), in turns
LFOTick(l, sr) == [l EXCEPT !.phase =
                      Rem(l.phase + MulDivNat(l.rate, SR_UNIT, sr), U)]
LFORetrigger(l) == [l EXCEPT !.phase = 0]
\* the phase in radians, for the branches that read it as a number
Radians(t) == MulDivNat(t, 62832, U)
LFOValue(l) ==
    LET s == SinTurn(l.phase)
        x == Radians(l.phase)
        base == CASE l.waveform = 1 ->
                       \* (2 / pi) asin(phase): NaN beyond 1 radian
                       IF x > U THEN NaN
                       ELSE FMul(6366, x + FMul(FMul(x, x), x) \div 6)
                  [] l.waveform = 2 -> IF s >= 0 THEN U ELSE -U
                  [] l.waveform = 3 -> 2 * ((l.phase % U) - U \div 2)
                  [] OTHER -> s
    IN  FMul(base, l.amount)

\* ---------------------------------------------------------------- voice
\* 440 * 2^((n - 69) / 12)
MidiToFreq(n) == FMul(440 * U, Pow2(((n - 69) * U) \div 12))
VoiceNew(m, f, vel, env) == [midi_note |-> m, freq |-> f, vel |-> vel,
                             phase0 |-> 0, phase1 |-> 0,
                             env |-> PerVoiceADSRNew(env), alive |-> TRUE]
\* the length of a table as an f32
TableLen(t) == Len(t) * U
\* one oscillator's sample at phase ph of table t
OscSample(w, ph, t, noise) ==
    LET tl == TableLen(t)
        turn == FDiv(ph, tl)
    IN  CASE w = "Sine" -> SinTurn(turn)
          [] w = "Saw" -> FMul(2 * U, FSub(turn, U \div 2))
          [] w = "Square" -> IF FLt(turn, U \div 2) THEN U ELSE -U
          [] w = "Triangle" ->
                FMul(2 * U, FSub(FMul(2 * U, FAbs(FSub(turn, U \div 4))), U \div 2))
          [] w = "Noise" -> noise
          [] w = "Wavetable" ->
                LET i0 == AsUsize(IF IsNaN(ph) THEN NaN ELSE Floor(ph)) % Len(t)
                    i1 == (i0 + 1) % Len(t)
                    frac == FSub(ph, IF IsNaN(ph) THEN NaN ELSE Floor(ph))
                IN  FAdd(FMul(t[i0 + 1], FSub(U, frac)), FMul(t[i1 + 1], frac))
\* the phase of oscillator i after one sample
OscAdvance(ph, freq, os, t, lfos, mods, sr) ==
    LET det == IF IsNaN(os.detune_cents) THEN NaN ELSE Pow2(os.detune_cents \div 1200)
        f == FMul(freq, det)
        tl == TableLen(t)
        wt_pos_mod == FAdd(FMul(LFOValue(lfos[1]), mods.lfo0_to_wtpos),
                           FMul(LFOValue(lfos[2]), mods.lfo1_to_wtpos))
        \* f * (tl / sr)
        base == IF IsNaN(f) THEN NaN ELSE MulDiv(f, Len(t) * SR_UNIT, sr)
        incr == FMul(base, FAdd(U, wt_pos_mod))
        sum == FAdd(ph, incr)
    IN  IF IsNaN(sum) THEN NaN ELSE Rem(sum, tl)
\* Voice::render: <<voice, sample>>
VoiceRender(v, sr, osc, wts, lfos, mods, noise) ==
    LET p0 == OscAdvance(v.phase0, v.freq, osc[1], wts[1], lfos, mods, sr)
        p1 == OscAdvance(v.phase1, v.freq, osc[2], wts[2], lfos, mods, sr)
        s == FAdd(FMul(OscSample(osc[1].waveform, p0, wts[1], noise), osc[1].gain),
                  FMul(OscSample(osc[2].waveform, p1, wts[2], noise), osc[2].gain))
        e == ADSRTick(v.env, sr)
        amp_lfo == FAdd(FMul(LFOValue(lfos[1]), mods.lfo0_to_amp),
                        FMul(LFOValue(lfos[2]), mods.lfo1_to_amp))
        amp == FMul(FClamp(FMul(e.level, FAdd(U, amp_lfo)), 0, 4 * U), v.vel)
    IN  << [v EXCEPT !.phase0 = p0, !.phase1 = p1, !.env = e], FMul(s, amp) >>
VoiceIsFinished(v) == v.env.state = "Idle"

\* ---------------------------------------------------------------- delay
\* 1 - exp(-2 pi hz / sr), hz a whole number of Hz; exp is below 1/U once
\* hz / sr reaches 2
LpCoef(sr, hz) == IF hz * SR_UNIT >= 2 * sr THEN U
                  ELSE U - ExpNeg((((hz * SR_UNIT * 1000) \div sr) * 62832) \div 1000)
DelaySetFeedbackTone(d, hz) ==
    [d EXCEPT !.fb_lp_coef = LpCoef(d.sample_rate,
                                    IF hz < 500 THEN 500 ELSE IF hz > 12000 THEN 12000 ELSE hz)]
DelayNew(sr, time, fb) ==
    LET length == (sr * 5) \div SR_UNIT
        len1 == IF length >= 1 THEN length ELSE 1
    IN  DelaySetFeedbackTone(
            [sample_rate |-> sr, buffer |-> BufNew(len1), write_pos |-> 0,
             length |-> len1, time_seconds |-> FClamp(time, 0, 5 * U),
             feedback |-> FClamp(fb, 0, 9900), wet |-> 3500,
             fb_lp_state |-> 0, fb_lp_coef |-> 0], 6000)
DelaySetTime(d, t) == [d EXCEPT !.time_seconds = FClamp(t, 0, 5 * U)]
\* `self.length - 2` on a usize: below 2 the subtraction overflows
DelayLengthUnderflows(d) == d.length < 2
\* SimpleDelay::read_frac: the two slots read and the value
DelayReadPos(d, delay_samples) ==
    LET rp == d.write_pos - AsI32(delay_samples)
        rp0 == rp % d.length        \* the while loop adds length until rp >= 0
    IN  << rp0, (rp0 + 1) % d.length >>
DelayReadFrac(d, delay_samples) ==
    LET rp == DelayReadPos(d, delay_samples)
        frac == IF IsNaN(delay_samples) THEN NaN ELSE delay_samples % U
        a == BufGet(d.buffer, rp[1])
        b == BufGet(d.buffer, rp[2])
    IN  FAdd(a, FMul(FSub(b, a), frac))
\* the delay in samples that process() reads at
DelaySamples(d) ==
    LET top == IF DelayLengthUnderflows(d) THEN 2000000000 ELSE (d.length - 2) * U
    IN  FClamp(MulDivNat(d.time_seconds, d.sample_rate, SR_UNIT), 0, top)
\* SimpleDelay::process: <<delay, output>>
DelayProcess(d, x) ==
    LET delayed == DelayReadFrac(d, DelaySamples(d))
        st == FAdd(d.fb_lp_state, FMul(d.fb_lp_coef, FSub(delayed, d.fb_lp_state)))
        fb_sig == FMul(st, d.feedback)
    IN  << [d EXCEPT !.fb_lp_state = st,
                     !.buffer = BufSet(d.buffer, d.write_pos, FAdd(x, fb_sig)),
                     !.write_pos = (d.write_pos + 1) % d.length],
           FAdd(FMul(x, FSub(U, d.wet)), FMul(delayed, d.wet)) >>

\* ---------------------------------------------------------------- reverb
CombMillis == <<50, 56, 61, 68>>
CombToneHz == <<5000, 4500, 4000, 3500>>
ApMillis == <<12, 4>>
\* set_decay: feedback = exp(-3 len / (sr decay)), clamped
ReverbSetDecay(r, seconds) ==
    LET dec == FClamp(seconds, 2000, 8 * U)
        fb(i) == LET len_s == MulDivNat(r.comb_len[i] * SR_UNIT, U, r.sample_rate)
                 IN  FClamp(ExpNeg(MulDivNat(3 * len_s, U, dec)), 5000, 9800)
    IN  [r EXCEPT !.decay = dec, !.comb_feedback = [i \in 1..4 |-> fb(i)]]
\* ((l as f32) * scale).max(1.0) as usize
ScaleLen(l, scale) == AsUsize(FMax(FMul(l * U, scale), U))
Max1(n) == IF n >= 1 THEN n ELSE 1
ReverbRecalcLengths(r) ==
    LET pre_len == ScaleLen(SrTimes(r.sample_rate, 20), r.size)
        cl == [i \in 1..4 |-> Max1(ScaleLen(SrTimes(r.sample_rate, CombMillis[i]), r.size))]
        al == [i \in 1..2 |-> Max1(ScaleLen(SrTimes(r.sample_rate, ApMillis[i]), r.size))]
    IN  ReverbSetDecay(
            [r EXCEPT !.pre_len = pre_len,
                      !.pre_buf = BufResize(r.pre_buf, Max1(pre_len)),
                      !.pre_pos = r.pre_pos % Max1(pre_len),
                      !.comb_len = cl,
                      !.comb_bufs = [i \in 1..4 |-> BufResize(r.comb_bufs[i], cl[i])],
                      !.comb_pos = [i \in 1..4 |-> r.comb_pos[i] % cl[i]],
                      !.ap_len = al,
                      !.ap_bufs = [i \in 1..2 |-> BufResize(r.ap_bufs[i], al[i])],
                      !.ap_pos = [i \in 1..2 |-> r.ap_pos[i] % al[i]]],
            r.decay)
ReverbNew(sr) ==
    ReverbRecalcLengths(
        [pre_buf |-> BufNew(SrTimes(sr, 20)), pre_pos |-> 0, pre_len |-> SrTimes(sr, 20),
         comb_bufs |-> [i \in 1..4 |-> BufNew(SrTimes(sr, CombMillis[i]))],
         comb_pos |-> <<0, 0, 0, 0>>,
         comb_len |-> [i \in 1..4 |-> SrTimes(sr, CombMillis[i])],
         comb_feedback |-> <<7700, 8000, 8200, 8400>>,
         comb_lp_state |-> <<0, 0, 0, 0>>,
         comb_lp_coef |-> [i \in 1..4 |-> LpCoef(sr, CombToneHz[i])],
         ap_bufs |-> [i \in 1..2 |-> BufNew(SrTimes(sr, ApMillis[i]))],
         ap_pos |-> <<0, 0>>,
         ap_len |-> [i \in 1..2 |-> SrTimes(sr, ApMillis[i])],
         ap_g |-> <<7000, 7000>>,
         wet |-> 3500, sample_rate |-> sr, decay |-> 22000, size |-> U])
\* comb_process(i, x): <<reverb, y>>
ReverbCombProcess(r, i, x) ==
    LET p == r.comb_pos[i]
        y == BufGet(r.comb_bufs[i], p)
        st == FAdd(r.comb_lp_state[i], FMul(r.comb_lp_coef[i], FSub(y, r.comb_lp_state[i])))
    IN  << [r EXCEPT !.comb_lp_state[i] = st,
                     !.comb_bufs[i] = BufSet(r.comb_bufs[i], p,
                                             FAdd(x, FMul(st, r.comb_feedback[i]))),
                     !.comb_pos[i] = (p + 1) % r.comb_len[i]], y >>
\* allpass_process(i, x): <<reverb, y>>
ReverbAllpassProcess(r, i, x) ==
    LET p == r.ap_pos[i]
        buf == BufGet(r.ap_bufs[i], p)
    IN  << [r EXCEPT !.ap_bufs[i] = BufSet(r.ap_bufs[i], p, FAdd(x, FMul(buf, r.ap_g[i]))),
                     !.ap_pos[i] = (p + 1) % r.ap_len[i]],
           FAdd(FNeg(x), buf) >>
\* SimpleReverb::process: <<reverb, output>>
ReverbProcess(r, x) ==
    LET y0 == BufGet(r.pre_buf, r.pre_pos)
        r0 == [r EXCEPT !.pre_buf = BufSet(r.pre_buf, r.pre_pos, x),
                        !.pre_pos = (r.pre_pos + 1) % r.pre_len]
        c1 == ReverbCombProcess(r0, 1, y0)
        c2 == ReverbCombProcess(c1[1], 2, y0)
        c3 == ReverbCombProcess(c2[1], 3, y0)
        c4 == ReverbCombProcess(c3[1], 4, y0)
        s == FMul(FAdd(FAdd(FAdd(c1[2], c2[2]), c3[2]), c4[2]), 2500)
        a1 == ReverbAllpassProcess(c4[1], 1, s)
        a2 == ReverbAllpassProcess(a1[1], 2, a1[2])
    IN  << a2[1], FAdd(FMul(x, FSub(U, r.wet)), FMul(a2[2], r.wet)) >>

\* ---------------------------------------------------------------- limiter
\* soft_clip: x1 (1 + a) / (1 + a |x1|), a = 0.5, x1 = x clamped to +/-2
SoftClip(x) == LET a == U \div 2
                   x1 == FClamp(x, -2 * U, 2 * U)
               IN  FDiv(FMul(x1, FAdd(U, a)), FAdd(U, FMul(a, FAbs(x1))))

\* ---------------------------------------------------------------- Synthesizer
\* Synthesizer::new
SynthNew(sr) ==
    [sample_rate |-> sr,
     osc_settings |-> <<OscSettingsDefault, OscSettingsDefault>>,
     wavetables |-> <<DefaultTable, DefaultTable>>,
     voices |-> << >>,
     env_defaults |-> ADSRParamsDefault,
     filter |-> FilterNew(1200 * U, 6000, sr),
     lfos |-> <<LFODefault, LFODefault>>,
     mod_matrix |-> ModMatrixDefault,
     delay |-> DelayNew(sr, 3000, 3500),
     reverb |-> ReverbNew(sr),
     master_gain |-> 9000,
     filter_env_enabled |-> TRUE,
     lfo0_retrigger |-> FALSE]

\* note_on as it would be if the newest voice were the one evicted
SynthNoteOnEvictsNewest(s, midi_note, velocity, r0, r1, ord) ==
    LET kept == IF Len(s.voices) >= MAX_VOICES
                THEN SubSeq(s.voices, 1, Len(s.voices) - 1) ELSE s.voices
        v == [ord |-> ord] @@
             [VoiceNew(midi_note, MidiToFreq(midi_note), velocity, s.env_defaults)
                 EXCEPT !.phase0 = r0, !.phase1 = r1]
    IN  [s EXCEPT !.lfos[1] = IF s.lfo0_retrigger THEN LFORetrigger(@) ELSE @,
                  !.voices = Append(kept, v)]

\* note_on as it would be if the retrigger option reset both LFOs
SynthNoteOnRetriggersBoth(s, midi_note, velocity, r0, r1, ord) ==
    LET kept == IF Len(s.voices) >= MAX_VOICES THEN Tail(s.voices) ELSE s.voices
        v == [ord |-> ord] @@
             [VoiceNew(midi_note, MidiToFreq(midi_note), velocity, s.env_defaults)
                 EXCEPT !.phase0 = r0, !.phase1 = r1]
    IN  [s EXCEPT !.lfos = [i \in 1..2 |->
                               IF s.lfo0_retrigger THEN LFORetrigger(@[i]) ELSE @[i]],
                  !.voices = Append(kept, v)]

\* note_on.  r0 and r1 are the two rand_phase() draws; ord is the ordinal of
\* this call, carried by the voice for the statements about note-on order
\* (the code holds no such field)
SynthNoteOn(s, midi_note, velocity, r0, r1, ord) ==
    LET freq == MidiToFreq(midi_note)
        kept == IF Len(s.voices) >= MAX_VOICES THEN Tail(s.voices) ELSE s.voices
        v == [ord |-> ord] @@
             [VoiceNew(midi_note, freq, velocity, s.env_defaults)
                 EXCEPT !.phase0 = r0, !.phase1 = r1]
    IN  [s EXCEPT !.lfos[1] = IF s.lfo0_retrigger THEN LFORetrigger(@) ELSE @,
                  !.voices = Append(kept, v)]

\* note_off as it would be if it released every live voice
SynthNoteOffAll(s, midi_note) ==
    [s EXCEPT !.voices = [i \in 1..Len(s.voices) |->
        [s.voices[i] EXCEPT !.env = ADSRNoteOff(@)]]]
\* note_off
SynthNoteOff(s, midi_note) ==
    [s EXCEPT !.voices = [i \in 1..Len(s.voices) |->
        IF s.voices[i].midi_note = midi_note
        THEN [s.voices[i] EXCEPT !.env = ADSRNoteOff(@)]
        ELSE s.voices[i]]]

ModMatrixNames == {"mod_lfo0_to_cutoff", "mod_lfo1_to_cutoff", "mod_env_to_cutoff",
                   "mod_lfo0_to_amp", "mod_lfo1_to_amp",
                   "mod_lfo0_to_wtpos", "mod_lfo1_to_wtpos"}
\* the names set_parameter hands on: those that start with mod_
ModPrefixed == ModMatrixNames \cup {"mod_unknown_route"}
\* ModMatrix::set_by_name
ModMatrixSetByName(m, name, value) ==
    CASE name = "mod_lfo0_to_cutoff" -> [m EXCEPT !.lfo0_to_cutoff = value]
      [] name = "mod_lfo1_to_cutoff" -> [m EXCEPT !.lfo1_to_cutoff = value]
      [] name = "mod_env_to_cutoff" -> [m EXCEPT !.env_to_cutoff = value]
      [] name = "mod_lfo0_to_amp" -> [m EXCEPT !.lfo0_to_amp = value]
      [] name = "mod_lfo1_to_amp" -> [m EXCEPT !.lfo1_to_amp = value]
      [] name = "mod_lfo0_to_wtpos" -> [m EXCEPT !.lfo0_to_wtpos = value]
      [] name = "mod_lfo1_to_wtpos" -> [m EXCEPT !.lfo1_to_wtpos = value]
      [] OTHER -> m

\* set_parameter
SynthSetParameter(s, name, value) ==
    CASE name = "osc0_waveform" -> [s EXCEPT !.osc_settings[1].waveform = WaveformFromF32(value)]
      [] name = "osc1_waveform" -> [s EXCEPT !.osc_settings[2].waveform = WaveformFromF32(value)]
      [] name \in {"osc0_gain", "osc0_volume"} -> [s EXCEPT !.osc_settings[1].gain = value]
      [] name \in {"osc1_gain", "osc1_volume"} -> [s EXCEPT !.osc_settings[2].gain = value]
      [] name = "osc0_detune" -> [s EXCEPT !.osc_settings[1].detune_cents = value]
      [] name = "osc1_detune" -> [s EXCEPT !.osc_settings[2].detune_cents = value]
      [] name \in {"osc0_sync", "osc1_sync"} -> s
      [] name = "env_attack" -> [s EXCEPT !.env_defaults.attack = FMax(value, 1)]
      [] name = "env_decay" -> [s EXCEPT !.env_defaults.decay = FMax(value, 1)]
      [] name = "env_sustain" -> [s EXCEPT !.env_defaults.sustain = FClamp(value, 0, U)]
      [] name = "env_release" -> [s EXCEPT !.env_defaults.release = FMax(value, 1)]
      [] name = "filter_cutoff" -> [s EXCEPT !.filter = FilterSetCutoff(@, FMax(value, 20 * U))]
      [] name = "filter_resonance" ->
            [s EXCEPT !.filter = FilterUpdateCoeffs([@ EXCEPT !.resonance = FMax(value, 0)])]
      [] name = "filter_env" -> [s EXCEPT !.filter_env_enabled = FGt(value, U \div 2)]
      [] name = "lfo0_rate" -> [s EXCEPT !.lfos[1].rate = FMax(value, 0)]
      [] name = "lfo0_amount" -> [s EXCEPT !.lfos[1].amount = value]
      [] name = "lfo1_rate" -> [s EXCEPT !.lfos[2].rate = FMax(value, 0)]
      [] name = "lfo1_amount" -> [s EXCEPT !.lfos[2].amount = value]
      [] name = "lfo0_retrigger" -> [s EXCEPT !.lfo0_retrigger = FGt(value, U \div 2)]
      [] name = "fx_delay_time" -> [s EXCEPT !.delay = DelaySetTime(@, FMax(value, 0))]
      [] name = "fx_delay_feedback" -> [s EXCEPT !.delay.feedback = FClamp(value, 0, 9900)]
      [] name = "fx_delay_wet" -> [s EXCEPT !.delay.wet = FClamp(value, 0, U)]
      [] name = "fx_reverb_wet" -> [s EXCEPT !.reverb.wet = FClamp(value, 0, U)]
      [] name = "master_gain" -> [s EXCEPT !.master_gain = value]
      [] name \in ModPrefixed -> [s EXCEPT !.mod_matrix = ModMatrixSetByName(@, name, value)]
      [] OTHER -> s

\* set_wavetable: arr is the Float32Array as a sequence; the table is arr
\* resampled to WAVETABLE_SIZE entries by linear interpolation
\* the table as it would be if the input were taken as it is
ResampleAsGiven(arr) == arr
Lerp(arr, i0, frac) ==
    FAdd(FMul(arr[i0 + 1], FSub(U, frac)), FMul(arr[((i0 + 1) % Len(arr)) + 1], frac))
\* out[i] for x = i / WAVETABLE_SIZE * len
ResampleAt(arr, x) == Lerp(arr, AsUsize(Floor(x)) % Len(arr), x - Floor(x))
Resample(arr) ==
    [i \in 1..WAVETABLE_SIZE |->
        ResampleAt(arr, MulDivNat((i - 1) * U, Len(arr), WAVETABLE_SIZE))]
SynthSetWavetable(s, osc, arr) ==
    IF osc >= 2 THEN s
    ELSE IF Len(arr) = 0 THEN s
    ELSE [s EXCEPT !.wavetables[osc + 1] = Resample(arr)]
\* get_wavetable
SynthGetWavetable(s, osc) ==
    IF osc >= 2 THEN [i \in 1..WAVETABLE_SIZE |-> 0] ELSE s.wavetables[osc + 1]

\* ---------------------------------------------------------------- presets
\* A preset text is held as what JSON.parse makes of it: class "Invalid" (no
\* JSON), "Number" (JSON, but no object) or "Object" with num, the map of its
\* numeric members, and wavetables, the items of its "wavetables" member,
\* each with the JS class it has after parsing.
\* JSON.stringify writes a NaN as null, which is no number to get_into; every
\* other f32 survives f32 -> f64 -> text -> f64 -> f32 unchanged
JsonNumbers(rec) == [k \in {n \in DOMAIN rec : ~IsNaN(rec[n])} |-> rec[k]]
\* a typed array is written as an object of its indices and parsed back as a
\* plain object
JsonClassAfterParse(class) == IF class = "Float32Array" THEN "Object" ELSE class
FirstSamples(t) == SubSeq(t, 1, IF Len(t) < 256 THEN Len(t) ELSE 256)
\* export_preset
SynthExportPreset(s) ==
    [class |-> "Object",
     num |-> JsonNumbers(
        [master_gain |-> s.master_gain,
         osc0_waveform |-> WaveformToIndex(s.osc_settings[1].waveform) * U,
         osc0_gain |-> s.osc_settings[1].gain,
         osc0_detune |-> s.osc_settings[1].detune_cents,
         osc1_waveform |-> WaveformToIndex(s.osc_settings[2].waveform) * U,
         osc1_gain |-> s.osc_settings[2].gain,
         osc1_detune |-> s.osc_settings[2].detune_cents,
         env_attack |-> s.env_defaults.attack,
         env_decay |-> s.env_defaults.decay,
         env_sustain |-> s.env_defaults.sustain,
         env_release |-> s.env_defaults.release,
         filter_cutoff |-> s.filter.base_cutoff,
         filter_resonance |-> s.filter.resonance,
         mod_lfo0_to_cutoff |-> s.mod_matrix.lfo0_to_cutoff,
         mod_lfo1_to_cutoff |-> s.mod_matrix.lfo1_to_cutoff,
         mod_env_to_cutoff |-> s.mod_matrix.env_to_cutoff]),
     wavetables |-> [i \in 1..2 |->
        [class |-> JsonClassAfterParse("Float32Array"),
         data |-> FirstSamples(s.wavetables[i])]]]

\* the members import_preset reads, in its order
ImportKeys == <<"master_gain",
                "osc0_waveform", "osc0_gain", "osc0_detune",
                "osc1_waveform", "osc1_gain", "osc1_detune",
                "env_attack", "env_decay", "env_sustain", "env_release",
                "filter_cutoff", "filter_resonance">>
\* one get_into(obj, key).map(...) of import_preset
ImportField(s, key, v) ==
    CASE key = "master_gain" -> [s EXCEPT !.master_gain = v]
      [] key = "osc0_waveform" -> [s EXCEPT !.osc_settings[1].waveform = WaveformFromF32(v)]
      [] key = "osc0_gain" -> [s EXCEPT !.osc_settings[1].gain = v]
      [] key = "osc0_detune" -> [s EXCEPT !.osc_settings[1].detune_cents = v]
      [] key = "osc1_waveform" -> [s EXCEPT !.osc_settings[2].waveform = WaveformFromF32(v)]
      [] key = "osc1_gain" -> [s EXCEPT !.osc_settings[2].gain = v]
      [] key = "osc1_detune" -> [s EXCEPT !.osc_settings[2].detune_cents = v]
      [] key = "env_attack" -> [s EXCEPT !.env_defaults.attack = FMax(v, 1)]
      [] key = "env_decay" -> [s EXCEPT !.env_defaults.decay = FMax(v, 1)]
      [] key = "env_sustain" -> [s EXCEPT !.env_defaults.sustain = FClamp(v, 0, U)]
      [] key = "env_release" -> [s EXCEPT !.env_defaults.release = FMax(v, 1)]
      [] key = "filter_cutoff" -> [s EXCEPT !.filter = FilterSetCutoff(@, FMax(v, 20 * U))]
      [] key = "filter_resonance" ->
            [s EXCEPT !.filter = FilterUpdateCoeffs([@ EXCEPT !.resonance = FMax(v, 0)])]
RECURSIVE ImportFields(_, _, _)
ImportFields(s, p, n) ==
    IF n > Len(ImportKeys) THEN s
    ELSE LET key == ImportKeys[n]
         IN  ImportFields(IF key \in DOMAIN p.num THEN ImportField(s, key, p.num[key]) ELSE s,
                          p, n + 1)
\* the optional wavetables: only an item that is a Float32Array is taken
ImportWavetable(s, p, i) ==
    IF i < Len(p.wavetables) /\ p.wavetables[i + 1].class = "Float32Array"
    THEN SynthSetWavetable(s, i, p.wavetables[i + 1].data)
    ELSE s
\* import_preset: <<synth, return value>>
SynthImportPreset(s, p) ==
    IF p.class = "Object"
    THEN << ImportWavetable(ImportWavetable(ImportFields(s, p, 1), p, 0), p, 1), TRUE >>
    ELSE << s, FALSE >>

\* ---------------------------------------------------------------- render
\* mix += s over voices lo .. hi (the sum is the same in any grouping: the
\* addition of the integers held is associative and NaN absorbs)
RECURSIVE FSum(_, _, _)
FSum(xs, lo, hi) ==
    IF lo > hi THEN 0
    ELSE IF lo = hi THEN xs[lo][2]
    ELSE LET mid == (lo + hi) \div 2
         IN  FAdd(FSum(xs, lo, mid), FSum(xs, mid + 1, hi))
\* The frame loop of render_audio, stage by stage; a stage takes and returns
\* <<synth, sample>>.
\* for l in &mut self.lfos { l.tick(dt) }
FrameTickLfos(s) ==
    [s EXCEPT !.lfos = [i \in 1..2 |-> LFOTick(s.lfos[i], s.sample_rate)]]
\* retain_mut as it would be if it handed the kept voices back newest first
FrameRetainNewestFirst(s, each) ==
    << [s EXCEPT !.voices =
           [i \in 1..Len(SelectSeq([k \in 1..Len(each) |-> each[k][1]],
                                   LAMBDA v : ~VoiceIsFinished(v))) |->
               SelectSeq([k \in 1..Len(each) |-> each[k][1]],
                         LAMBDA v : ~VoiceIsFinished(v))[
                   Len(SelectSeq([k \in 1..Len(each) |-> each[k][1]],
                                 LAMBDA v : ~VoiceIsFinished(v))) + 1 - i]]],
       FSum(each, 1, Len(each)) >>
\* retain_mut's outcome, given each voice's <<voice, sample>>
FrameRetain(s, each) ==
    << [s EXCEPT !.voices = SelectSeq([i \in 1..Len(each) |-> each[i][1]],
                                      LAMBDA v : ~VoiceIsFinished(v))],
       FSum(each, 1, Len(each)) >>
\* mix voices and retire finished
FrameVoices(s, noise) ==
    FrameRetain(s, [i \in 1..Len(s.voices) |->
                       VoiceRender(s.voices[i], s.sample_rate, s.osc_settings,
                                   s.wavetables, s.lfos, s.mod_matrix, noise)])
\* global cutoff modulation
FrameCutoff(s) ==
    FMin(FMax(FAdd(s.filter.base_cutoff,
                   FMul(FAdd(FAdd(FMul(LFOValue(s.lfos[1]), s.mod_matrix.lfo0_to_cutoff),
                                  FMul(LFOValue(s.lfos[2]), s.mod_matrix.lfo1_to_cutoff)),
                             s.mod_matrix.env_to_cutoff),
                        2000 * U)),
              20 * U),
         CutoffTop(s.sample_rate))
\* a stage's outcome r = <<component, sample>>, the component put back
FramePut(s, field, r) == << [s EXCEPT ![field] = r[1]], r[2] >>
FrameFilter(p) ==
    FramePut(p[1], "filter",
             FilterProcess(FilterSetCutoff(p[1].filter, FrameCutoff(p[1])), p[2]))
FrameDelay(p) == FramePut(p[1], "delay", DelayProcess(p[1].delay, p[2]))
FrameReverb(p) == FramePut(p[1], "reverb", ReverbProcess(p[1].reverb, p[2]))
\* out[n] = soft_clip(reverbed * self.master_gain)
FrameOutput(p) == << p[1], SoftClip(FMul(p[2], p[1].master_gain)) >>
\* one pass of the frame loop: <<synth, out[n]>>
SynthRenderFrame(s, noise) ==
    FrameOutput(FrameReverb(FrameDelay(FrameFilter(FrameVoices(FrameTickLfos(s), noise)))))
\* the frame's <<synth, out[n]>> after out[0..n)
RenderAppend(sofar, frame) == << frame[1], Append(sofar, frame[2]) >>
RenderNext(before, noise) ==
    RenderAppend(before[2], SynthRenderFrame(before[1], noise))
\* render_audio(frames): <<synth, out>>; frame n starts from what the
\* frames before it have left
RECURSIVE SynthRenderAudio(_, _, _)
SynthRenderAudio(s, frames, noise) ==
    IF frames = 0 THEN << s, << >> >>
    ELSE CHOOSE after \in {RenderNext(before, noise) :
                              before \in {SynthRenderAudio(s, frames - 1, noise)}} : TRUE

\* ---------------------------------------------------------------- the machine
\* synth: the Synthesizer.  What the host holds: out, the buffer the last
\* render_audio returned; preset, the text the last export_preset returned;
\* ok, what the last import_preset returned; table, what the last
\* get_wavetable returned; call, the last call and its arguments (for a
\* note_off also whether it follows the note_on of its pitch at once, for a
\* render_audio also whether it stopped at an integer overflow).
\* History: note_ons and rendered count the note_on calls and the frames
\* rendered so far; snap is the instance the last export was taken from.
\* env: the envelope of one voice on its own, for what PerVoiceADSR's own
\* operations do to it whoever calls them.
VARIABLES synth, out, preset, ok, table, call, note_ons, rendered, snap, env
vars == <<synth, out, preset, ok, table, call, note_ons, rendered, snap, env>>

\* the configured (not sounding) state of an instance
Config(s) ==
    [osc_settings |-> s.osc_settings, env_defaults |-> s.env_defaults,
     filter_cutoff |-> s.filter.base_cutoff, filter_resonance |-> s.filter.resonance,
     mod_matrix |-> s.mod_matrix,
     lfo_rate |-> <<s.lfos[1].rate, s.lfos[2].rate>>,
     lfo_amount |-> <<s.lfos[1].amount, s.lfos[2].amount>>,
     delay_time |-> s.delay.time_seconds, delay_feedback |-> s.delay.feedback,
     delay_wet |-> s.delay.wet, reverb_wet |-> s.reverb.wet,
     master_gain |-> s.master_gain]

\* the instance is as its constructor left it
Fresh(s) == s = SynthNew(s.sample_rate)

NoPreset == [class |-> "Invalid", num |-> [k \in {} |-> 0], wavetables |-> << >>]

\* the engine as constructed at one of the rates, next to an envelope as
\* PerVoiceADSR::new makes it from one of the parameter records
InitOf(rates, params) ==
    /\ synth \in {SynthNew(sr) : sr \in rates}
    /\ out = << >>
    /\ preset = NoPreset
    /\ ok = FALSE
    /\ table = << >>
    /\ call = [op |-> "new"]
    /\ note_ons = 0
    /\ rendered = 0
    /\ snap = [fresh |-> FALSE, sample_rate |-> 0, cfg |-> << >>]
    /\ env \in {PerVoiceADSRNew(d) : d \in params}
InitWith(rates) == InitOf(rates, {ADSRParamsDefault})

\* a new instance takes the place of the old one
Construct(sr) ==
    /\ synth' = SynthNew(sr)
    /\ call' = [op |-> "new"]
    /\ UNCHANGED <<out, preset, ok, table, note_ons, rendered, snap, env>>

NoteOn(midi_note, velocity, r0, r1) ==
    /\ synth' = SynthNoteOn(synth, midi_note, velocity, r0, r1, note_ons)
    /\ note_ons' = note_ons + 1
    /\ call' = [op |-> "note_on", midi_note |-> midi_note]
    /\ UNCHANGED <<out, preset, ok, table, rendered, snap, env>>

NoteOff(midi_note) ==
    /\ synth' = SynthNoteOff(synth, midi_note)
    /\ call' = [op |-> "note_off", midi_note |-> midi_note,
                follows_on |-> (call.op = "note_on" /\ call.midi_note = midi_note)]
    /\ UNCHANGED <<out, preset, ok, table, note_ons, rendered, snap, env>>

SetParameter(name, value) ==
    /\ synth' = SynthSetParameter(synth, name, value)
    /\ call' = [op |-> "set_parameter", name |-> name, value |-> value]
    /\ UNCHANGED <<out, preset, ok, table, note_ons, rendered, snap, env>>

SetWavetable(osc, arr) ==
    /\ synth' = SynthSetWavetable(synth, osc, arr)
    /\ call' = [op |-> "set_wavetable", osc |-> osc, len |-> Len(arr)]
    /\ UNCHANGED <<out, preset, ok, table, note_ons, rendered, snap, env>>

GetWavetable(osc) ==
    /\ table' = SynthGetWavetable(synth, osc)
    /\ call' = [op |-> "get_wavetable", osc |-> osc]
    /\ UNCHANGED <<synth, out, preset, ok, note_ons, rendered, snap, env>>

ExportPreset ==
    /\ preset' = SynthExportPreset(synth)
    /\ snap' = [fresh |-> Fresh(synth), sample_rate |-> synth.sample_rate, cfg |-> Config(synth)]
    /\ call' = [op |-> "export_preset"]
    /\ UNCHANGED <<synth, out, ok, table, note_ons, rendered, env>>

\* import_preset(p); exported tells whether p is the text last exported
ImportPreset(p) ==
    /\ \E r \in {SynthImportPreset(synth, p)} :
          synth' = r[1] /\ ok' = r[2]
    /\ call' = [op |-> "import_preset", exported |-> (p = preset /\ p # NoPreset),
                fresh |-> Fresh(synth)]
    /\ UNCHANGED <<out, preset, table, note_ons, rendered, snap, env>>

\* PerVoiceADSR::tick on the envelope, at the engine's sample rate
EnvTick ==
    /\ env' = ADSRTick(env, synth.sample_rate)
    /\ call' = [op |-> "env.tick"]
    /\ UNCHANGED <<synth, out, preset, ok, table, note_ons, rendered, snap>>

\* PerVoiceADSR::note_off on the envelope
EnvNoteOff ==
    /\ env' = ADSRNoteOff(env)
    /\ call' = [op |-> "env.note_off"]
    /\ UNCHANGED <<synth, out, preset, ok, table, note_ons, rendered, snap>>

\* render_audio as it would be if the LFOs were ticked before the frame loop
RenderAudioTicksFirst(frames, noise) ==
    /\ \E r \in {SynthRenderAudio(FrameTickLfos(synth), frames, noise)} :
          synth' = r[1] /\ out' = r[2]
    /\ rendered' = rendered + frames
    /\ call' = [op |-> "render_audio", frames |-> frames, trapped |-> FALSE]
    /\ UNCHANGED <<preset, ok, table, note_ons, snap, env>>

\* `self.length - 2` in SimpleDelay::process overflows a usize when the delay
\* line is shorter than 2: a build with overflow checks stops there, a build
\* without them wraps and goes on
RenderTraps(s, frames) ==
    IF frames > 0 /\ DelayLengthUnderflows(s.delay) THEN {TRUE, FALSE} ELSE {FALSE}
\* what render_audio leaves: where it stops, the first frame is at the delay
\* and no buffer is returned
RenderOutcome(s, frames, noise, trapped) ==
    IF trapped THEN << FrameFilter(FrameVoices(FrameTickLfos(s), noise))[1], << >> >>
    ELSE SynthRenderAudio(s, frames, noise)
RenderAudio(frames, noise) ==
    /\ \E trapped \in RenderTraps(synth, frames) :
          /\ \E r \in {RenderOutcome(synth, frames, noise, trapped)} :
                synth' = r[1] /\ out' = r[2]
          /\ rendered' = rendered + (IF trapped THEN 0 ELSE frames)
          /\ call' = [op |-> "render_audio", frames |-> frames, trapped |-> trapped]
    /\ UNCHANGED <<preset, ok, table, note_ons, snap, env>>

\* ---------------------------------------------------------------- bounds
\* note_on calls beyond MAX_VOICES
ExtraNoteOns == 2
\* frames rendered in all
CapacityFrames == 2

\* ---------------------------------------------------------------- capacity
\* The engine at 10 Hz, filled by note_on calls of one pitch; from one voice
\* below capacity the host also releases the pitch and renders a frame, so
\* that voices of different ages are retired before the next note_on evicts,
\* and at capacity it also asks for an empty buffer.
SpecCapacityInit == InitWith({10 * SR_UNIT})
SpecCapacityNext ==
    \/ /\ note_ons < MAX_VOICES + ExtraNoteOns
       /\ NoteOn(60, U, 0, 0)
    \/ /\ Len(synth.voices) >= MAX_VOICES - 1
       /\ NoteOff(60)
    \/ /\ Len(synth.voices) >= MAX_VOICES - 1
       /\ rendered < CapacityFrames
       /\ RenderAudio(1, 0)
    \/ /\ Len(synth.voices) = MAX_VOICES
       /\ rendered > 0
       /\ RenderAudio(0, 0)
SpecCapacity == SpecCapacityInit /\ [][SpecCapacityNext]_vars

Ords(voices) == {voices[i].ord : i \in 1..Len(voices)}
\* the live voice whose note_on came first
Earliest(voices) == CHOOSE v \in {voices[i] : i \in 1..Len(voices)} :
                        \A i \in 1..Len(voices) : v.ord <= voices[i].ord

\* C1: there are never more than 64 live voices, and a note_on with exactly
\* 64 live voices evicts exactly one of them, the one whose note_on came
\* first, keeps the 63 others as they are and in their order, and appends the
\* new voice, leaving 64.
C1_VoiceCapacity ==
    /\ [](Len(synth.voices) <= MAX_VOICES)
    /\ [][(note_ons' = note_ons + 1 /\ Len(synth.voices) = MAX_VOICES) =>
            /\ Len(synth'.voices) = MAX_VOICES
            /\ Ords(synth'.voices) =
                 (Ords(synth.voices) \ {Earliest(synth.voices).ord}) \cup {note_ons}
            /\ \A i \in 1..(MAX_VOICES - 1) :
                 /\ synth'.voices[i] \in {synth.voices[j] : j \in 1..MAX_VOICES}
                 /\ synth'.voices[i].ord < synth'.voices[i + 1].ord
            /\ synth'.voices[MAX_VOICES].ord = note_ons
            /\ synth'.voices[MAX_VOICES].env.state = "Attack"]_vars
\* a note_on has evicted at capacity after a render retired some voices and
\* kept others
C1_Witness ==
    /\ call.op = "note_on"
    /\ Len(synth.voices) = MAX_VOICES
    /\ synth.voices[1].ord > 0
    /\ rendered > 0
    /\ \E n \in 0..note_ons : n > synth.voices[1].ord /\ n \notin Ords(synth.voices)
    /\ \E i \in 1..MAX_VOICES : synth.voices[i].env.state = "Release"

\* C4: render_audio(0) returns an empty buffer and leaves the whole engine
\* as it was: LFO phases, live voices, filter, delay and reverb.
C4_RenderNothing ==
    [][(call'.op = "render_audio" /\ call'.frames = 0) =>
          (synth' = synth /\ out' = << >>)]_vars
\* render_audio(0) was called on an engine with a live voice that had already
\* rendered frames
C4_Witness ==
    /\ call.op = "render_audio"
    /\ call.frames = 0
    /\ rendered > 0
    /\ Len(synth.voices) > 0
    /\ synth.lfos # SynthNew(synth.sample_rate).lfos


\* ---------------------------------------------------------------- notes
\* note_on calls in all
MaxNotes == 2
\* frames rendered in all
NotesFrames == 3
\* The engine at 10 Hz, where the stock envelope leaves Attack after one
\* frame and reaches Sustain after two more: two pitches are played and
\* released, and frames are rendered one at a time.
NotesPitches == {60, 64}
SpecNotesInit == InitWith({10 * SR_UNIT})
SpecNotesNext ==
    \/ \E p \in NotesPitches : note_ons < MaxNotes /\ NoteOn(p, U, 0, 0)
    \/ \E p \in NotesPitches : NoteOff(p)
    \/ rendered < NotesFrames /\ RenderAudio(1, 0)
SpecNotes == SpecNotesInit /\ [][SpecNotesNext]_vars

\* C5: note_off(p) puts every live voice of pitch p into Release at once,
\* whatever its stage, with its level as it was; the voices of other pitches
\* keep stage and level; number and order of the live voices stay.
C5_NoteOff ==
    [][call'.op = "note_off" =>
          /\ Len(synth'.voices) = Len(synth.voices)
          /\ \A i \in 1..Len(synth.voices) :
               /\ synth'.voices[i].ord = synth.voices[i].ord
               /\ synth'.voices[i].env.level = synth.voices[i].env.level
               /\ synth.voices[i].midi_note = call'.midi_note =>
                     synth'.voices[i].env.state = "Release"
               /\ synth.voices[i].midi_note # call'.midi_note =>
                     synth'.voices[i] = synth.voices[i]]_vars
\* a note_off released a sounding voice of its pitch, already past Attack,
\* and left a voice of the other pitch in Decay or Sustain
C5_Witness ==
    /\ call.op = "note_off"
    /\ \E i, k \in 1..Len(synth.voices) :
         /\ synth.voices[i].midi_note = call.midi_note
         /\ synth.voices[i].env.state = "Release"
         /\ synth.voices[i].env.level > 0
         /\ synth.voices[i].env.level < U
         /\ synth.voices[k].midi_note # call.midi_note
         /\ synth.voices[k].env.state \in {"Decay", "Sustain"}


\* ---------------------------------------------------------------- envelope defaults
\* note_on calls in all
EnvelopeNotes == 2
\* frames rendered in all
EnvelopeFrames == 1
\* The engine at 10 Hz: one pitch is played while the four envelope defaults
\* are edited one after the other; a preset is exported once and imported.
EnvelopeEdits == << <<"env_attack", 5000>>, <<"env_decay", 1000>>,
                    <<"env_sustain", 5000>>, <<"env_release", 1000>> >>
\* the defaults once the first n edits are made
RECURSIVE EnvelopeEdited(_, _)
EnvelopeEdited(s, n) ==
    IF n = 0 THEN s.env_defaults
    ELSE SynthSetParameter([s EXCEPT !.env_defaults = EnvelopeEdited(s, n - 1)],
                           EnvelopeEdits[n][1], EnvelopeEdits[n][2]).env_defaults
SpecEnvelopeInit == InitWith({10 * SR_UNIT})
SpecEnvelopeNext ==
    \/ note_ons < EnvelopeNotes /\ NoteOn(60, U, 0, 0)
    \/ \E n \in 1..Len(EnvelopeEdits) :
          /\ synth.env_defaults = EnvelopeEdited(SynthNew(synth.sample_rate), n - 1)
          /\ SetParameter(EnvelopeEdits[n][1], EnvelopeEdits[n][2])
    \/ preset = NoPreset /\ ExportPreset
    \/ preset # NoPreset /\ ImportPreset(preset)
    \/ rendered < EnvelopeFrames /\ call.op = "note_on" /\ RenderAudio(1, 0)
SpecEnvelope == SpecEnvelopeInit /\ [][SpecEnvelopeNext]_vars

EnvOf(v) == [attack |-> v.env.attack, decay |-> v.env.decay,
             sustain |-> v.env.sustain, release |-> v.env.release]
\* C6: a voice takes attack, decay, sustain and release from the defaults at
\* its note_on; set_parameter(env_*) changes nothing but the defaults, and
\* neither it nor import_preset touches a live voice.
C6_EnvelopeCopied ==
    /\ [][call'.op = "note_on" =>
            /\ EnvOf(synth'.voices[Len(synth'.voices)]) = synth.env_defaults
            /\ synth'.env_defaults = synth.env_defaults
            /\ \A i \in 1..(Len(synth'.voices) - 1) :
                 synth'.voices[i] \in {synth.voices[j] : j \in 1..Len(synth.voices)}]_vars
    /\ [][call'.op = "set_parameter" =>
            synth' = [synth EXCEPT !.env_defaults = synth'.env_defaults]]_vars
    /\ [][call'.op = "import_preset" => synth'.voices = synth.voices]_vars
\* a voice was created after the defaults were edited, next to a live voice
\* that keeps the earlier values, and the defaults were changed again since
C6_Witness ==
    /\ Len(synth.voices) >= 2
    /\ EnvOf(synth.voices[1]) = ADSRParamsDefault
    /\ EnvOf(synth.voices[2]) # ADSRParamsDefault
    /\ EnvOf(synth.voices[2]) # synth.env_defaults
    /\ synth.voices[1].env.state # "Attack"
    /\ call.op = "import_preset"
    /\ ok

\* ---------------------------------------------------------------- retirement
\* note_on calls in all
RetireNotes == 2
\* frames of the long render_audio call
RetireSpan == 6
\* frames rendered in all
RetireFrames == 9
\* The engine at 10 Hz: the sustain and release defaults are edited first, one
\* pitch is played and released, and render_audio is called for one frame or
\* for RetireSpan frames.
RetireEdits == {<<"env_sustain", NaN>>, <<"env_sustain", 5000>>, <<"env_release", 1000>>}
SpecRetireInit == InitWith({10 * SR_UNIT})
SpecRetireNext ==
    \/ \E e \in RetireEdits : note_ons = 0 /\ SetParameter(e[1], e[2])
    \/ note_ons < RetireNotes /\ NoteOn(60, U, 0, 0)
    \/ NoteOff(60)
    \/ \E frames \in {1, RetireSpan} :
          rendered + frames <= RetireFrames /\ RenderAudio(frames, 0)
SpecRetire == SpecRetireInit /\ [][SpecRetireNext]_vars

\* frames >= seconds x sampleRate
FramesCover(frames, seconds, sr) == frames * U * SR_UNIT >= seconds * sr
\* C2: a render of at least (attack + decay + release) x sampleRate frames
\* right after note_on(p), note_off(p) retires that voice, and the count of
\* live voices drops; and a render of release x sampleRate frames (and one
\* more) retires every voice that had received its note_off.
C2_Retired ==
    /\ [][(/\ call.op = "note_off"
           /\ call.follows_on
           /\ call'.op = "render_audio"
           /\ call'.frames >= 1
           /\ LET e == synth.voices[Len(synth.voices)].env
              IN  FramesCover(call'.frames, e.attack + e.decay + e.release,
                              synth.sample_rate)) =>
            /\ (note_ons - 1) \notin Ords(synth'.voices)
            /\ Len(synth'.voices) < Len(synth.voices)]_vars
    /\ [][call'.op = "render_audio" =>
            \A i \in 1..Len(synth.voices) :
               (/\ synth.voices[i].env.state = "Release"
                /\ FramesCover(call'.frames - 1, synth.voices[i].env.release,
                               synth.sample_rate)) =>
                  synth.voices[i].ord \notin Ords(synth'.voices)]_vars

\* ---------------------------------------------------------------- output range
\* note_on calls in all
RenderNotes == 2
\* frames of one render_audio call, at most
RenderSpan == 2
\* frames rendered in all
RenderFrames == 3
\* The engine at 10 Hz: the master gain is set low or high, one pitch is
\* played at full velocity from one of two phases and released, and up to
\* RenderSpan frames are rendered at a time.
RenderGains == {U \div 2, 50 * U}
RenderPhases == {0, (WAVETABLE_SIZE \div 4) * U}
SpecRenderInit == InitWith({10 * SR_UNIT})
SpecRenderNext ==
    \/ \E g \in RenderGains : SetParameter("master_gain", g)
    \/ \E r0 \in RenderPhases : note_ons < RenderNotes /\ NoteOn(69, U, r0, 0)
    \/ NoteOff(69)
    \/ \E frames \in 0..RenderSpan :
          rendered + frames <= RenderFrames /\ RenderAudio(frames, 0)
SpecRender == SpecRenderInit /\ [][SpecRenderNext]_vars

\* C3: render_audio(frameCount) returns exactly frameCount samples, each of
\* them in [-1, 1].
C3_Buffer ==
    call.op = "render_audio" =>
        /\ Len(out) = call.frames
        /\ \A n \in 1..Len(out) : FGe(out[n], -U) /\ FLe(out[n], U)

\* ---------------------------------------------------------------- control ranges
\* frames rendered in all
ParamFrames == 1
\* The engine at 1 kHz or 5 kHz: one of the range-limited controls, all of
\* them as constructed, is given a value below, inside or above its range or
\* NaN; a preset is exported and imported, and single frames are rendered.
ParamNames == {"env_attack", "env_decay", "env_sustain", "env_release",
               "filter_cutoff", "filter_resonance",
               "fx_delay_time", "fx_delay_feedback", "fx_delay_wet", "fx_reverb_wet"}
ParamValues == {NaN, -U, 0, U \div 2, 30000 * U}
SpecParamsInit == InitWith({1000 * SR_UNIT, 5000 * SR_UNIT})
SpecParamsNext ==
    \/ /\ Config(synth) = Config(SynthNew(synth.sample_rate))
       /\ \E name \in ParamNames, value \in ParamValues : SetParameter(name, value)
    \/ ExportPreset
    \/ ImportPreset(preset)
    \/ rendered < ParamFrames /\ RenderAudio(1, 0)
SpecParams == SpecParamsInit /\ [][SpecParamsNext]_vars

\* C7: the controls stay in their safe ranges: default attack, decay and
\* release above 0, default sustain in [0, 1], resonance at least 0, cutoff
\* from 20 Hz to 0.49 x sampleRate, delay feedback in [0, 0.99], delay time in
\* [0, 5] seconds, delay wet and reverb wet in [0, 1].
C7_SafeRanges ==
    /\ FGt(synth.env_defaults.attack, 0)
    /\ FGt(synth.env_defaults.decay, 0)
    /\ FGt(synth.env_defaults.release, 0)
    /\ FGe(synth.env_defaults.sustain, 0) /\ FLe(synth.env_defaults.sustain, U)
    /\ FGe(synth.filter.resonance, 0)
    /\ FGe(synth.filter.base_cutoff, 20 * U)
    /\ FLe(synth.filter.base_cutoff, CutoffTop(synth.sample_rate))
    /\ FGe(synth.delay.feedback, 0) /\ FLe(synth.delay.feedback, 9900)
    /\ FGe(synth.delay.time_seconds, 0) /\ FLe(synth.delay.time_seconds, 5 * U)
    /\ FGe(synth.delay.wet, 0) /\ FLe(synth.delay.wet, U)
    /\ FGe(synth.reverb.wet, 0) /\ FLe(synth.reverb.wet, U)

\* ---------------------------------------------------------------- wavetables
\* length of the longest input table
MaxInput == 2
\* oscillator indices offered, from 0
MaxOsc == 2
\* The engine at 1 kHz: tables of every length up to MaxInput are set on
\* oscillator indices up to MaxOsc and the preset of a new instance is
\* imported; then tables are read back.
WavetableInput(len) == [i \in 1..len |-> IF i % 2 = 1 THEN U ELSE -(U \div 2)]
WavetablePresets == {SynthExportPreset(SynthNew(1000 * SR_UNIT))}
SpecWavetableInit == InitWith({1000 * SR_UNIT})
SpecWavetableNext ==
    \/ \E osc \in 0..MaxOsc, len \in 0..MaxInput :
          table = << >> /\ SetWavetable(osc, WavetableInput(len))
    \/ \E osc \in 0..MaxOsc : GetWavetable(osc)
    \/ \E p \in WavetablePresets : table = << >> /\ ImportPreset(p)
SpecWavetable == SpecWavetableInit /\ [][SpecWavetableNext]_vars

\* C8: both wavetables always hold exactly 2048 samples; set_wavetable with
\* an empty input or an oscillator index of 2 or more leaves the tables as
\* they were; get_wavetable with an index of 2 or more returns 2048 zeros.
C8_TableSize ==
    /\ [](\A i \in 1..2 : Len(synth.wavetables[i]) = WAVETABLE_SIZE)
    /\ [][(call'.op = "set_wavetable" /\ (call'.len = 0 \/ call'.osc >= 2)) =>
            synth'.wavetables = synth.wavetables]_vars
    /\ []((call.op = "get_wavetable" /\ call.osc >= 2) =>
            table = [i \in 1..WAVETABLE_SIZE |-> 0])
\* both tables were set, from inputs of different lengths, an empty input was
\* offered and a preset imported; then zeros were read from index 2 or more
C8_Witness ==
    /\ call.op = "get_wavetable"
    /\ call.osc >= 2
    /\ ok
    /\ synth.wavetables[1] # DefaultTable
    /\ synth.wavetables[2] # DefaultTable
    /\ synth.wavetables[1] # synth.wavetables[2]
    /\ table = [i \in 1..WAVETABLE_SIZE |-> 0]

\* ---------------------------------------------------------------- presets
\* the exported value given to a control, in units of 1/4
PresetQuarter == 1
\* The engine at 1 kHz or 48 kHz: one exported and imported control of an
\* instance as constructed is edited, the preset is exported and imported,
\* and a new instance of the same rate takes the place of the old one.
RoundTripNames == {"master_gain", "osc0_gain", "osc1_detune", "env_attack",
                   "env_sustain", "filter_cutoff", "filter_resonance"}
SpecRoundTripInit == InitWith({1000 * SR_UNIT, 48000 * SR_UNIT})
SpecRoundTripNext ==
    \/ /\ Fresh(synth)
       /\ \E name \in RoundTripNames : SetParameter(name, PresetQuarter * (U \div 4))
    \/ ExportPreset
    \/ ImportPreset(preset)
    \/ Construct(synth.sample_rate)
SpecRoundTrip == SpecRoundTripInit /\ [][SpecRoundTripNext]_vars

\* the parameters that export_preset writes and import_preset reads
RoundTrip(s) ==
    [master_gain |-> s.master_gain, osc_settings |-> s.osc_settings,
     env_defaults |-> s.env_defaults, filter_cutoff |-> s.filter.base_cutoff,
     filter_resonance |-> s.filter.resonance]
\* C9: on an instance as constructed, export_preset and then import_preset of
\* what was exported returns true and leaves master gain, the oscillators'
\* waveform, gain and detune, the envelope defaults and the filter cutoff and
\* resonance as they were before the export.
C9_RoundTrip ==
    (/\ call.op = "import_preset"
     /\ call.exported
     /\ call.fresh
     /\ snap.fresh
     /\ snap.sample_rate = synth.sample_rate) =>
        /\ ok
        /\ RoundTrip(synth) = RoundTrip(SynthNew(synth.sample_rate))

\* The engine at 48 kHz: one control of an instance as constructed is
\* edited, the preset is exported, a new instance of the same rate takes the
\* place of the old one, and the preset is imported.
PresetNames == {"master_gain", "osc0_waveform", "osc0_gain", "osc1_detune",
                "env_attack", "env_decay", "env_sustain", "env_release",
                "filter_cutoff", "filter_resonance",
                "mod_lfo0_to_cutoff", "mod_env_to_cutoff", "mod_lfo0_to_amp",
                "mod_lfo1_to_wtpos", "lfo0_rate", "lfo1_amount",
                "fx_delay_time", "fx_delay_feedback", "fx_delay_wet", "fx_reverb_wet"}
SpecPresetInit == InitWith({48000 * SR_UNIT})
SpecPresetNext ==
    \/ /\ Fresh(synth)
       /\ \E name \in PresetNames : SetParameter(name, PresetQuarter * (U \div 4))
    \/ ExportPreset
    \/ Construct(synth.sample_rate)
    \/ ImportPreset(preset)
SpecPreset == SpecPresetInit /\ [][SpecPresetNext]_vars

\* C10: importing the preset exported from an instance A into an instance B
\* as constructed, of the same sample rate, makes every configured parameter
\* of B equal to A's: oscillator settings, envelope defaults, filter cutoff
\* and resonance, modulation weights, LFO rates and amounts, delay time,
\* feedback and wet, reverb wet, master gain.
C10_Reconstructs ==
    (/\ call.op = "import_preset"
     /\ call.exported
     /\ call.fresh
     /\ snap.sample_rate = synth.sample_rate) =>
        Config(synth) = snap.cfg

\* ---------------------------------------------------------------- retrigger
\* note_on calls beyond MAX_VOICES
RetriggerExtra == 1
\* frames rendered in all
RetriggerFrames == 2
\* what the host writes to lfo0_retrigger
RetriggerValues == {NaN, 0, U \div 2, U}
\* The engine at 10 Hz, where both LFOs advance a quarter turn per frame: the
\* host writes the retrigger option, plays one pitch up to and beyond
\* capacity, and renders a frame before any voice is live or from one voice
\* below capacity.
SpecRetriggerInit == InitWith({10 * SR_UNIT})
SpecRetriggerNext ==
    \/ /\ note_ons < MAX_VOICES + RetriggerExtra
       /\ NoteOn(60, U, 0, 0)
    \/ /\ call.op # "set_parameter"
       /\ \E value \in RetriggerValues : SetParameter("lfo0_retrigger", value)
    \/ /\ note_ons = 0 \/ Len(synth.voices) >= MAX_VOICES - 1
       /\ rendered < RetriggerFrames
       /\ RenderAudio(1, 0)
SpecRetrigger == SpecRetriggerInit /\ [][SpecRetriggerNext]_vars

\* C11: the option is set by a value above 0.5; while it is set every
\* note_on puts the phase of LFO 0 to zero, at capacity too; while it is not,
\* note_on leaves LFO 0 as it was; LFO 1 is never changed by note_on, and
\* rate, amount and waveform of LFO 0 never are.
C11_Retrigger ==
    /\ [][(call'.op = "set_parameter" /\ call'.name = "lfo0_retrigger") =>
            synth'.lfo0_retrigger = (call'.value # NaN /\ call'.value > U \div 2)]_vars
    /\ [][call'.op = "note_on" =>
            /\ synth'.lfo0_retrigger = synth.lfo0_retrigger
            /\ synth.lfo0_retrigger =>
                 synth'.lfos[1] = [synth.lfos[1] EXCEPT !.phase = 0]
            /\ ~synth.lfo0_retrigger => synth'.lfos[1] = synth.lfos[1]
            /\ synth'.lfos[2] = synth.lfos[2]]_vars
\* a note_on at capacity has evicted a voice and put LFO 0 back to zero while
\* LFO 1, ticked by the same frames, is a half turn on
C11_Witness ==
    /\ call.op = "note_on"
    /\ Len(synth.voices) = MAX_VOICES
    /\ synth.voices[1].ord > 0
    /\ synth.lfo0_retrigger
    /\ rendered = RetriggerFrames
    /\ synth.lfos[1].phase = 0
    /\ synth.lfos[2].phase = U \div 2

\* ---------------------------------------------------------------- faults
\* note_on calls in all
FaultNotes == 1
\* frames rendered in all
FaultFrames == 3
\* the sample rates of the engine, in 1/SR_UNIT Hz: 0.3 Hz, 0.4 Hz, 10 Hz
FaultRates == {3, 4, 10 * SR_UNIT}
\* what the host writes to fx_delay_time, in seconds
FaultTimes == {NaN, 0, 5 * U, 30000 * U}
\* the last render_audio stopped at the overflow
Trapped == call.op = "render_audio" /\ call.trapped
\* The engine at each of the rates: the host sets the delay time, renders up
\* to two frames at a time, and makes no further call once a render has
\* stopped; at 10 Hz it also plays and releases a pitch (below that the
\* phase step of a voice is beyond the numbers held here).
SpecFaultsInit == InitWith(FaultRates)
SpecFaultsNext ==
    \/ /\ ~Trapped /\ note_ons < FaultNotes
       /\ synth.sample_rate >= 10 * SR_UNIT
       /\ NoteOn(60, U, 0, 0)
    \/ ~Trapped /\ call.op = "note_on" /\ NoteOff(60)
    \/ /\ ~Trapped /\ call.op # "set_parameter"
       /\ \E value \in FaultTimes : SetParameter("fx_delay_time", value)
    \/ /\ ~Trapped
       /\ \E frames \in 1..2 : rendered + frames <= FaultFrames /\ RenderAudio(frames, 0)
SpecFaults == SpecFaultsInit /\ [][SpecFaultsNext]_vars

\* the slots SimpleDelay::process reads and writes are in the buffer
DelaySafe(d) ==
    /\ d.length >= 1
    /\ d.buffer.len = d.length
    /\ InBounds(d.buffer, d.write_pos)
    /\ \A i \in 1..2 : InBounds(d.buffer, DelayReadPos(d, DelaySamples(d))[i])
\* the slots SimpleReverb::process reads and writes are in their buffers, and
\* no cursor is taken modulo zero
ReverbSafe(r) ==
    /\ r.pre_len >= 1
    /\ InBounds(r.pre_buf, r.pre_pos)
    /\ \A i \in 1..4 : r.comb_len[i] >= 1 /\ InBounds(r.comb_bufs[i], r.comb_pos[i])
    /\ \A i \in 1..2 : r.ap_len[i] >= 1 /\ InBounds(r.ap_bufs[i], r.ap_pos[i])

\* C12: at every sample rate and after any calls, every delay and reverb
\* index is inside its buffer and no buffer is empty; a render_audio call of
\* one frame or more finds the delay length at least 2, so that length - 2
\* does not underflow, and returns all the frames it was asked for.
C12_NeverFaults ==
    /\ [](~Trapped => DelaySafe(synth.delay) /\ ReverbSafe(synth.reverb))
    /\ [][call'.op = "render_audio" =>
            /\ call'.frames > 0 => ~DelayLengthUnderflows(synth.delay)
            /\ ~call'.trapped
            /\ Len(out') = call'.frames]_vars

\* ---------------------------------------------------------------- stages
\* the parameter records the envelope is made from: attack, decay and release
\* short and long against the 0.1 s sample period, sustain at 0, 0.5 and 1
StageParams ==
    {[attack |-> a, decay |-> d, sustain |-> s, release |-> r] :
        a \in {10, 3000}, d \in {1000, 3000}, s \in {0, U \div 2, U}, r \in {10, 5000}}
\* One envelope at 10 Hz, ticked and released in any order.
SpecStagesInit == InitOf({10 * SR_UNIT}, StageParams)
SpecStagesNext ==
    \/ EnvTick
    \/ EnvNoteOff
SpecStages == SpecStagesInit /\ [][SpecStagesNext]_vars

\* the place of a stage in the order Attack, Decay, Sustain, Release, Idle
StageRank(state) ==
    CASE state = "Attack" -> 0 [] state = "Decay" -> 1 [] state = "Sustain" -> 2
      [] state = "Release" -> 3 [] state = "Idle" -> 4

RetainNotes == 3
\* frames rendered in all
RetainFrames == 2
\* The engine at 10 Hz, where a voice released before its first frame is
\* Idle after that frame and the stock release takes two frames from full
\* level: two pitches are played and released, one or two frames at a time
\* are rendered.
SpecRetainInit == InitWith({10 * SR_UNIT})
SpecRetainNext ==
    \/ \E p \in NotesPitches : note_ons < RetainNotes /\ NoteOn(p, U, 0, 0)
    \/ \E p \in NotesPitches : call.op # "note_off" /\ NoteOff(p)
    \/ \E frames \in 1..2 : rendered + frames <= RetainFrames /\ RenderAudio(frames, 0)
SpecRetain == SpecRetainInit /\ [][SpecRetainNext]_vars

\* the live voices whose envelope is not Idle after one more tick
StillSounding(s) ==
    SelectSeq(s.voices, LAMBDA v : ADSRTick(v.env, s.sample_rate).state # "Idle")

\* C14: no live voice is ever Idle; what render_audio leaves are voices that
\* were live before it, in their note_on order; after a single frame they are
\* exactly the voices that the frame's tick did not make Idle, each with its
\* envelope one tick on.
C14_IdleRetired ==
    /\ [](\A i \in 1..Len(synth.voices) : synth.voices[i].env.state # "Idle")
    /\ [][call'.op = "render_audio" =>
            /\ Ords(synth'.voices) \subseteq Ords(synth.voices)
            /\ \A i \in 1..(Len(synth'.voices) - 1) :
                 synth'.voices[i].ord < synth'.voices[i + 1].ord]_vars
    /\ [][(call'.op = "render_audio" /\ call'.frames = 1) =>
            /\ Len(synth'.voices) = Len(StillSounding(synth))
            /\ \A i \in 1..Len(synth'.voices) :
                 /\ synth'.voices[i].ord = StillSounding(synth)[i].ord
                 /\ synth'.voices[i].env =
                      ADSRTick(StillSounding(synth)[i].env, synth.sample_rate)]_vars
\* a render has dropped the first voice played and kept the two played after
\* it, one of them in Release
C14_Witness ==
    /\ call.op = "render_audio"
    /\ ~call.trapped
    /\ Len(synth.voices) = 2
    /\ synth.voices[1].ord = 1
    /\ synth.voices[2].ord = 2
    /\ \E i \in 1..2 : synth.voices[i].env.state = "Release"

\* ---------------------------------------------------------------- base cutoff
\* frames rendered in all
CutoffFrames == 3
\* what the host writes before it renders: a cutoff, the constant offset of
\* the modulation matrix, the weight and the amount of LFO 0
CutoffEdits ==
    {<<"filter_cutoff", 500 * U>>, <<"filter_cutoff", 30000 * U>>,
     <<"mod_env_to_cutoff", 0>>, <<"mod_env_to_cutoff", 2500>>,
     <<"mod_lfo0_to_cutoff", 0>>, <<"lfo0_amount", U>>}
\* The engine at 5 kHz and 10 kHz, where the constructed cutoff of 1200 Hz is
\* below 0.49 x the rate: the host edits while nothing is rendered yet, then
\* renders one or two frames at a time, and exports and imports a preset.
SpecCutoffInit == InitWith({5000 * SR_UNIT, 10000 * SR_UNIT})
SpecCutoffNext ==
    \/ /\ rendered = 0 /\ call.op # "set_parameter"
       /\ \E e \in CutoffEdits : SetParameter(e[1], e[2])
    \/ \E frames \in 1..2 : rendered + frames <= CutoffFrames /\ RenderAudio(frames, 0)
    \/ call.op = "render_audio" /\ ExportPreset
    \/ call.op = "export_preset" /\ ImportPreset(preset)
SpecCutoff == SpecCutoffInit /\ [][SpecCutoffNext]_vars

\* C15: render_audio leaves the base cutoff as it found it, so that what
\* export_preset reports as filter_cutoff after a render is what it was before.
C15_BaseCutoffKept ==
    /\ [][call'.op = "render_audio" =>
            synth'.filter.base_cutoff = synth.filter.base_cutoff]_vars
    /\ [][call'.op = "export_preset" =>
            preset'.num["filter_cutoff"] = synth.filter.base_cutoff]_vars
====
